---- MODULE Spec2Model ----
(***************************************************************************)
(* Request-body example generation of openapi-to-hurl                      *)
(* (src/src/request_body/request_body.rs).                                 *)
(*                                                                         *)
(* from_spec_body walks the content entries of a request body, and for the *)
(* JSON entry calls parse_json_from_schema, the recursive schema walker.   *)
(* The recursion is modelled with an explicit call stack: one frame per    *)
(* active call of parse_json_from_schema, one action per code position.    *)
(* Two logs record what the run did: `calls` (every call of the walker,    *)
(* with its caller, its depth argument and its result) and `resolved`      *)
(* (every reference resolution, with its outcome).                         *)
(*                                                                         *)
(* Option<T> is a sequence of length 0 (None) or 1 (Some).                 *)
(* A schema reference (ObjectOrReference<Schema>) is a number: i in        *)
(* 1..NumNodes resolves to schema i of the document, 0 resolves to nothing *)
(* (RefError).                                                             *)
(***************************************************************************)
EXTENDS Integers, Sequences, FiniteSets, TLC

VARIABLES spec, content, formatting, pc, idx, stack, ret, calls, resolved, result

vars == <<spec, content, formatting, pc, idx, stack, ret, calls, resolved, result>>

(***************************************************************************)
(* Bounds of the model                                                     *)
(***************************************************************************)
\* schemas in the document
NumNodes == 3
\* frames the call stack holds before the process dies of stack overflow
MaxStack == 5
\* content entries of a request body
MaxContent == 2

Refs == 0 .. NumNodes
NodeIds == 1 .. NumNodes

(***************************************************************************)
(* Values                                                                  *)
(***************************************************************************)
None == <<>>
Some(x) == <<x>>
IsSome(o) == Len(o) > 0
Unwrap(o) == o[1]

\* Result<Option<T>, RefError>
Ok(o) == [st |-> "Ok", val |-> o]
Err == [st |-> "Err", val |-> None]
Pending == [st |-> "Pending", val |-> None]
IsErr(r) == r.st = "Err"

\* hurl_core::ast::JsonValue
JsonNull == [t |-> "Null"]
JsonBoolean(b) == [t |-> "Boolean", b |-> b]
JsonNumber(s) == [t |-> "Number", n |-> s]
JsonString(tpl) == [t |-> "String", s |-> tpl]
JsonList(space0, elements) == [t |-> "List", space0 |-> space0, elements |-> elements]
JsonObject(space0, elements) == [t |-> "Object", space0 |-> space0, elements |-> elements]

\* collaborators of the output builder: each keeps its arguments
template_from_string(s) == [template |-> s]
build_json_list_space(fmt) == [list_space |-> fmt]
build_json_list_value(v, fmt) == [value |-> v, fmt |-> fmt]
build_json_object_element(key, v, depth, fmt) == [name |-> key, value |-> v, depth |-> depth, fmt |-> fmt]
empty_space == ""
newline == "\n"

\* hurl_core::ast::Body around a JSON value
Body(v) == [line_terminators |-> <<>>, space0 |-> empty_space, value |-> [bytes |-> "Json", json |-> v], line_terminator0 |-> newline]

(***************************************************************************)
(* Number::to_string, i32::to_string, f64::to_string                       *)
(***************************************************************************)
Digit(d) == CASE d = 0 -> "0" [] d = 1 -> "1" [] d = 2 -> "2" [] d = 3 -> "3" [] d = 4 -> "4" [] d = 5 -> "5" [] d = 6 -> "6" [] d = 7 -> "7" [] d = 8 -> "8" [] d = 9 -> "9"

RECURSIVE NatToString(_)
NatToString(n) == IF n < 10 THEN Digit(n) ELSE NatToString(n \div 10) \o Digit(n % 10)

\* a decimal with one fractional digit, given in tenths (3.3 is 33)
TenthsToString(t) == NatToString(t \div 10) \o "." \o Digit(t % 10)

(***************************************************************************)
(* serde_json::Value and its conversion                                    *)
(***************************************************************************)
SNull == [k |-> "Null"]
SBool(b) == [k |-> "Bool", b |-> b]
SNumber(n) == [k |-> "Number", n |-> n]
SString(s) == [k |-> "String", s |-> s]
SArray(a) == [k |-> "Array", a |-> a]
SObject(o) == [k |-> "Object", o |-> o]

RECURSIVE serde_to_hurl_json(_, _, _)
serde_to_hurl_json(v, depth, fmt) ==
  CASE v.k = "Null" -> JsonNull
    [] v.k = "Bool" -> JsonBoolean(v.b)
    [] v.k = "Number" -> JsonNumber(NatToString(v.n))
    [] v.k = "String" -> JsonString(template_from_string(v.s))
    [] v.k = "Array" ->
         JsonList(build_json_list_space(fmt),
                  [i \in 1 .. Len(v.a) |-> build_json_list_value(serde_to_hurl_json(v.a[i], depth, fmt), fmt)])
    [] v.k = "Object" ->
         JsonObject("",
                    [i \in 1 .. Len(v.o) |->
                       build_json_object_element(template_from_string(v.o[i].key),
                                                 serde_to_hurl_json(v.o[i].val, depth, fmt), depth, fmt)])

(***************************************************************************)
(* default_json_value_from_schema_type                                     *)
(***************************************************************************)
Scalar(v) == [k |-> "Scalar", s |-> v]
SimpleArray == [k |-> "Array"]
SimpleObject == [k |-> "Object"]

default_json_value_from_schema_type(t) ==
  CASE t = "Boolean" -> Scalar(JsonBoolean(TRUE))
    [] t = "Integer" -> Scalar(JsonNumber(NatToString(3)))
    [] t = "Number" -> Scalar(JsonNumber(TenthsToString(33)))
    [] t = "String" -> Scalar(JsonString(template_from_string("string")))
    [] t = "Array" -> SimpleArray
    [] t = "Object" -> SimpleObject

(***************************************************************************)
(* Media type names are sequences of characters                            *)
(***************************************************************************)
UpperChars == <<"A", "B", "C", "D", "E", "F", "G", "H", "I", "J", "K", "L", "M", "N", "O", "P", "Q", "R", "S", "T", "U", "V", "W", "X", "Y", "Z">>
LowerChars == <<"a", "b", "c", "d", "e", "f", "g", "h", "i", "j", "k", "l", "m", "n", "o", "p", "q", "r", "s", "t", "u", "v", "w", "x", "y", "z">>

to_lowercase(s) == [i \in 1 .. Len(s) |-> IF \E u \in 1 .. 26 : UpperChars[u] = s[i] THEN LowerChars[CHOOSE u \in 1 .. 26 : UpperChars[u] = s[i]] ELSE s[i]]

contains(s, pat) == \E b \in 1 .. Len(s) + 1 : b + Len(pat) - 1 <= Len(s) /\ SubSeq(s, b, b + Len(pat) - 1) = pat

IsJsonMediaType(name) == contains(to_lowercase(name), <<"j", "s", "o", "n">>)

(***************************************************************************)
(* oas3::Schema: the fields the walker reads                               *)
(***************************************************************************)
Sch(ro, ex, ty, items, props, allOf, oneOf, anyOf) == [read_only |-> ro, example |-> ex, schema_type |-> ty, items |-> items, properties |-> props, all_of |-> allOf, one_of |-> oneOf, any_of |-> anyOf]

\* one entry of Schema::properties, in the map's iteration order
Prop(name, ref) == [name |-> name, ref |-> ref]

\* ObjectOrReference::resolve: Ok(schema) or Err(RefError)
Resolves(ref) == ref \in NodeIds

\* body::parse_schema on MediaType::schema (an Option of a reference)
parse_schema(schema) == IF schema = None THEN Ok(None) ELSE IF Resolves(Unwrap(schema)) THEN Ok(Some(Unwrap(schema))) ELSE Err

(***************************************************************************)
(* The call stack of parse_json_from_schema                                *)
(***************************************************************************)
Top == stack[Len(stack)]
TopSchema == spec[Top.node]

\* a frame: the call's number in `calls`, its schema and depth arguments,
\* the code position (at), the loop counters of the allOf and property
\* loops (i, j), the resolved allOf member (0: none) and the elements built
Frame(id, node, depth) == [id |-> id, node |-> node, depth |-> depth, at |-> "entry", i |-> 1, j |-> 1, member |-> 0, acc |-> <<>>]

CallRecord(parent, via, key, node, depth) == [parent |-> parent, via |-> via, key |-> key, node |-> node, depth |-> depth, res |-> Pending]

Resolution(by, ref) == [by |-> by, ref |-> ref, ok |-> Resolves(ref)]

\* the running call returns res to its caller
Return(res) ==
  /\ stack' = SubSeq(stack, 1, Len(stack) - 1)
  /\ ret' = Some(res)
  /\ calls' = [calls EXCEPT ![Top.id].res = res]
  /\ pc' = IF Len(stack) = 1 THEN "body" ELSE "walk"
  /\ UNCHANGED <<spec, content, formatting, idx, resolved, result>>

\* the running call fails on a reference it could not resolve
Fail(ref) ==
  /\ stack' = SubSeq(stack, 1, Len(stack) - 1)
  /\ ret' = Some(Err)
  /\ calls' = [calls EXCEPT ![Top.id].res = Err]
  /\ resolved' = Append(resolved, Resolution(Top.id, ref))
  /\ pc' = IF Len(stack) = 1 THEN "body" ELSE "walk"
  /\ UNCHANGED <<spec, content, formatting, idx, result>>

\* the running call, moved to position `at`, resolves ref and calls
\* parse_json_from_schema on it; a full stack ends the process
Call(ref, via, key, depth, at) ==
  /\ resolved' = Append(resolved, Resolution(Top.id, ref))
  /\ IF Len(stack) >= MaxStack
       THEN /\ pc' = "overflow"
            /\ UNCHANGED <<stack, calls>>
       ELSE /\ pc' = "walk"
            /\ stack' = Append([stack EXCEPT ![Len(stack)].at = at], Frame(Len(calls) + 1, ref, depth))
            /\ calls' = Append(calls, CallRecord(Top.id, via, key, ref, depth))
  /\ UNCHANGED <<spec, content, formatting, idx, ret, result>>

ResolveAndCall(ref, via, key, depth, at) == IF Resolves(ref) THEN Call(ref, via, key, depth, at) ELSE Fail(ref)

(***************************************************************************)
(* parse_json_from_schema: the decisions                                   *)
(***************************************************************************)
\* variant: the example is looked at before readOnly
IsReadOnlyAfterExample(s) == IsSome(s.read_only) /\ Unwrap(s.read_only) /\ ~IsSome(s.example)

\* variant: a schema met again while its conversion runs is given no value
IsReadOnlyOrRevisited(s) == (IsSome(s.read_only) /\ Unwrap(s.read_only)) \/ \E f \in 1 .. Len(stack) - 1 : stack[f].node = Top.node

IsReadOnly(s) == IsSome(s.read_only) /\ Unwrap(s.read_only)

HasExample(s) == IsSome(s.example)

default_val(s) == IF IsSome(s.schema_type) THEN Some(default_json_value_from_schema_type(Unwrap(s.schema_type))) ELSE None

TypeIs(s, k) == IsSome(default_val(s)) /\ Unwrap(default_val(s)).k = k

\* past the readOnly and example returns
PastExample(s) == ~IsReadOnly(s) /\ ~HasExample(s)

\* variant: a non-empty allOf is merged even when the schema has a type
NoTypeOrAllOf(s) == PastExample(s) /\ (default_val(s) = None \/ Len(s.all_of) > 0)

\* the None arm of `match default_val`
NoType(s) == PastExample(s) /\ default_val(s) = None

ItemsDepth(depth) == depth
PropertyDepth(depth) == depth + 1
AllOfPropertyDepth(depth) == depth + 1
\* variant: the first member is converted one level deeper
FirstOfDepthPlusOne(depth) == depth + 1

FirstOfDepth(depth) == depth

\* elements of the list built around the items' value
ArrayElements(r, fmt) == IF IsSome(r.val) THEN <<build_json_list_value(Unwrap(r.val), fmt)>> ELSE <<>>

\* variant: a property with no value is written as null
PushPropertyOrNull(acc, key, r, depth, fmt) == Append(acc, build_json_object_element(template_from_string(key), IF IsSome(r.val) THEN Unwrap(r.val) ELSE JsonNull, depth, fmt))

\* props after `match val`: pushed when Some, left alone when None
PushProperty(acc, key, r, depth, fmt) == IF IsSome(r.val) THEN Append(acc, build_json_object_element(template_from_string(key), Unwrap(r.val), depth, fmt)) ELSE acc

AtEntry == pc = "walk" /\ ret = None /\ Top.at = "entry"
Returned == pc = "walk" /\ IsSome(ret)

(***************************************************************************)
(* parse_json_from_schema: the steps                                       *)
(***************************************************************************)
ReadOnly ==
  /\ AtEntry
  /\ IsReadOnly(TopSchema)
  /\ Return(Ok(None))

Example ==
  /\ AtEntry
  /\ ~IsReadOnly(TopSchema)
  /\ HasExample(TopSchema)
  /\ Return(Ok(Some(serde_to_hurl_json(Unwrap(TopSchema.example), Top.depth, formatting))))

ScalarType ==
  /\ AtEntry
  /\ PastExample(TopSchema)
  /\ TypeIs(TopSchema, "Scalar")
  /\ Return(Ok(Some(Unwrap(default_val(TopSchema)).s)))

ArrayNoItems ==
  /\ AtEntry
  /\ PastExample(TopSchema)
  /\ TypeIs(TopSchema, "Array")
  /\ TopSchema.items = None
  /\ Return(Ok(Some(JsonList("\n", <<>>))))

ArrayItems ==
  /\ AtEntry
  /\ PastExample(TopSchema)
  /\ TypeIs(TopSchema, "Array")
  /\ IsSome(TopSchema.items)
  /\ ResolveAndCall(Unwrap(TopSchema.items), "items", "", ItemsDepth(Top.depth), "items")

\* variant: an array whose items give no value gives no value
ArrayItemsReturnNone ==
  /\ Returned
  /\ Top.at = "items"
  /\ IF IsErr(Unwrap(ret))
       THEN Return(Err)
       ELSE IF IsSome(Unwrap(ret).val)
         THEN Return(Ok(Some(JsonList(build_json_list_space(formatting), ArrayElements(Unwrap(ret), formatting)))))
         ELSE Return(Ok(None))

ArrayItemsReturn ==
  /\ Returned
  /\ Top.at = "items"
  /\ IF IsErr(Unwrap(ret))
       THEN Return(Err)
       ELSE Return(Ok(Some(JsonList(build_json_list_space(formatting), ArrayElements(Unwrap(ret), formatting)))))

InObject == pc = "walk" /\ \/ Top.at = "entry" /\ PastExample(TopSchema) /\ TypeIs(TopSchema, "Object")
                           \/ Top.at = "props"

ObjectProperty ==
  /\ InObject
  /\ ret = None
  /\ Top.j <= Len(TopSchema.properties)
  /\ ResolveAndCall(TopSchema.properties[Top.j].ref, "property", TopSchema.properties[Top.j].name, PropertyDepth(Top.depth), "props")

\* variant: a property whose conversion fails is left out
ObjectPropertyReturnSkipErr ==
  /\ Returned
  /\ Top.at = "props"
  /\ stack' = [stack EXCEPT ![Len(stack)].acc = PushProperty(Top.acc, TopSchema.properties[Top.j].name, Unwrap(ret), Top.depth, formatting),
                            ![Len(stack)].j = Top.j + 1]
  /\ ret' = None
  /\ UNCHANGED <<spec, content, formatting, pc, idx, calls, resolved, result>>

ObjectPropertyReturn ==
  /\ Returned
  /\ Top.at = "props"
  /\ IF IsErr(Unwrap(ret))
       THEN Return(Err)
       ELSE /\ stack' = [stack EXCEPT ![Len(stack)].acc = PushProperty(Top.acc, TopSchema.properties[Top.j].name, Unwrap(ret), Top.depth, formatting),
                                      ![Len(stack)].j = Top.j + 1]
            /\ ret' = None
            /\ UNCHANGED <<spec, content, formatting, pc, idx, calls, resolved, result>>

ObjectDone ==
  /\ InObject
  /\ ret = None
  /\ Top.j > Len(TopSchema.properties)
  /\ Return(Ok(Some(JsonObject("", Top.acc))))

(***************************************************************************)
(* json_obj_from_allof, called when the schema has no type                 *)
(***************************************************************************)
InAllOf == pc = "walk" /\ \/ Top.at = "entry" /\ NoType(TopSchema) /\ Len(TopSchema.all_of) > 0
                          \/ Top.at = "allOf"

\* `for schema in allof`: the member is resolved, its properties are next
AllOfMember ==
  /\ InAllOf
  /\ ret = None
  /\ Top.member = 0
  /\ Top.i <= Len(TopSchema.all_of)
  /\ IF Resolves(TopSchema.all_of[Top.i])
       THEN /\ stack' = [stack EXCEPT ![Len(stack)].at = "allOf",
                                      ![Len(stack)].member = TopSchema.all_of[Top.i],
                                      ![Len(stack)].j = 1]
            /\ resolved' = Append(resolved, Resolution(Top.id, TopSchema.all_of[Top.i]))
            /\ UNCHANGED <<spec, content, formatting, pc, idx, ret, calls, result>>
       ELSE Fail(TopSchema.all_of[Top.i])

\* `for prop in ...properties`: the property is resolved and converted
AllOfProperty ==
  /\ InAllOf
  /\ ret = None
  /\ Top.member # 0
  /\ Top.j <= Len(spec[Top.member].properties)
  /\ ResolveAndCall(spec[Top.member].properties[Top.j].ref, "allOf", spec[Top.member].properties[Top.j].name, AllOfPropertyDepth(Top.depth), "allOf")

AllOfPropertyReturn ==
  /\ Returned
  /\ Top.at = "allOf"
  /\ IF IsErr(Unwrap(ret))
       THEN Return(Err)
       ELSE /\ stack' = [stack EXCEPT ![Len(stack)].acc = PushProperty(Top.acc, spec[Top.member].properties[Top.j].name, Unwrap(ret), Top.depth, formatting),
                                      ![Len(stack)].j = Top.j + 1]
            /\ ret' = None
            /\ UNCHANGED <<spec, content, formatting, pc, idx, calls, resolved, result>>

\* variant: the loop over the members ends after the first member
AllOfFirstMemberDone ==
  /\ InAllOf
  /\ ret = None
  /\ Top.member # 0
  /\ Top.j > Len(spec[Top.member].properties)
  /\ stack' = [stack EXCEPT ![Len(stack)].member = 0, ![Len(stack)].i = Len(TopSchema.all_of) + 1]
  /\ UNCHANGED <<spec, content, formatting, pc, idx, ret, calls, resolved, result>>

\* the member's properties are exhausted: the next member
AllOfMemberDone ==
  /\ InAllOf
  /\ ret = None
  /\ Top.member # 0
  /\ Top.j > Len(spec[Top.member].properties)
  /\ stack' = [stack EXCEPT ![Len(stack)].member = 0, ![Len(stack)].i = Top.i + 1]
  /\ UNCHANGED <<spec, content, formatting, pc, idx, ret, calls, resolved, result>>

AllOfDone ==
  /\ InAllOf
  /\ ret = None
  /\ Top.member = 0
  /\ Top.i > Len(TopSchema.all_of)
  /\ Return(Ok(Some(JsonObject("", Top.acc))))

(***************************************************************************)
(* json_obj_from_anyof, called for one_of and then for any_of              *)
(***************************************************************************)
\* variant: the last member is taken
LastOf(list) == list[Len(list)]

\* the member `for schema in &anyof { return ... }` reaches
FirstOf(list) == list[1]

json_obj_from_anyof(list, via) ==
  IF Len(list) = 0
    THEN Return(Ok(Some(JsonObject("", <<>>))))
    ELSE ResolveAndCall(FirstOf(list), via, "", FirstOfDepth(Top.depth), "first")

OneOf ==
  /\ AtEntry
  /\ NoType(TopSchema)
  /\ Len(TopSchema.all_of) = 0
  /\ Len(TopSchema.one_of) > 0
  /\ json_obj_from_anyof(TopSchema.one_of, "oneOf")

AnyOf ==
  /\ AtEntry
  /\ NoType(TopSchema)
  /\ Len(TopSchema.all_of) = 0
  /\ Len(TopSchema.one_of) = 0
  /\ Len(TopSchema.any_of) > 0
  /\ json_obj_from_anyof(TopSchema.any_of, "anyOf")

\* the first member's result is the result
FirstOfReturn ==
  /\ Returned
  /\ Top.at = "first"
  /\ Return(Unwrap(ret))

NullFallback ==
  /\ AtEntry
  /\ NoType(TopSchema)
  /\ Len(TopSchema.all_of) = 0
  /\ Len(TopSchema.one_of) = 0
  /\ Len(TopSchema.any_of) = 0
  /\ Return(Ok(Some(JsonNull)))

(***************************************************************************)
(* from_spec_body                                                          *)
(***************************************************************************)
InBody == pc = "body" /\ ret = None /\ idx <= Len(content)

Finish(res) ==
  /\ result' = res
  /\ pc' = "done"

\* parse_schema gives None: continue
BodyNoSchema ==
  /\ InBody
  /\ parse_schema(content[idx].schema) = Ok(None)
  /\ idx' = idx + 1
  /\ UNCHANGED <<spec, content, formatting, pc, stack, ret, calls, resolved, result>>

\* parse_schema(...)? fails
BodyRefError ==
  /\ InBody
  /\ IsErr(parse_schema(content[idx].schema))
  /\ Finish(Err)
  /\ resolved' = Append(resolved, Resolution(0, Unwrap(content[idx].schema)))
  /\ UNCHANGED <<spec, content, formatting, idx, stack, ret, calls>>

\* the schema resolved, the media type is not JSON: the next entry
BodySkip ==
  /\ InBody
  /\ IsSome(parse_schema(content[idx].schema).val)
  /\ ~IsJsonMediaType(content[idx].name)
  /\ idx' = idx + 1
  /\ resolved' = Append(resolved, Resolution(0, Unwrap(content[idx].schema)))
  /\ UNCHANGED <<spec, content, formatting, pc, stack, ret, calls, result>>

\* the schema resolved, the media type is JSON: the walker runs at depth 1
BodyJson ==
  /\ InBody
  /\ IsSome(parse_schema(content[idx].schema).val)
  /\ IsJsonMediaType(content[idx].name)
  /\ pc' = "walk"
  /\ stack' = <<Frame(1, Unwrap(parse_schema(content[idx].schema).val), 1)>>
  /\ calls' = <<CallRecord(0, "root", "", Unwrap(parse_schema(content[idx].schema).val), 1)>>
  /\ resolved' = Append(resolved, Resolution(0, Unwrap(content[idx].schema)))
  /\ UNCHANGED <<spec, content, formatting, idx, ret, result>>

\* the walker's result: the error, a Body around the value, or None
BodyReturn ==
  /\ pc = "body"
  /\ IsSome(ret)
  /\ Finish(IF IsErr(Unwrap(ret)) THEN Err ELSE IF IsSome(Unwrap(ret).val) THEN Ok(Some(Body(Unwrap(Unwrap(ret).val)))) ELSE Ok(None))
  /\ ret' = None
  /\ UNCHANGED <<spec, content, formatting, idx, stack, calls, resolved>>

\* the loop ends with no JSON entry
BodyEnd ==
  /\ pc = "body"
  /\ ret = None
  /\ idx > Len(content)
  /\ Finish(Ok(None))
  /\ UNCHANGED <<spec, content, formatting, idx, stack, ret, calls, resolved>>

(***************************************************************************)
(* Inputs: the schema documents and request bodies the runs start from     *)
(***************************************************************************)
ExNumber == SNumber(12)
ExNested == SObject(<<[key |-> "id", val |-> SArray(<<SBool(FALSE), SNull, SString("x")>>)]>>)

ScalarTypes == {"Boolean", "Integer", "Number", "String"}

\* readOnly schemas that carry every other field
ReadOnlySchemas(r, s) == {Sch(Some(TRUE), ex, ty, Some(r), <<Prop("a", r), Prop("b", s)>>, <<r, s>>, <<s>>, <<r>>) : ex \in {None, Some(ExNumber)}, ty \in {None, Some("Object"), Some("Array")}}

\* schemas with an example, with and without a type and compositions
ExampleSchemas(r, s) == {Sch(Some(FALSE), Some(ex), ty, Some(r), <<Prop("a", s)>>, l, l, l) : ex \in {ExNumber, ExNested}, ty \in {None, Some("Object"), Some("Integer")}, l \in {<<>>, <<r, s>>}}

ScalarSchemas(r, s) == {Sch(None, None, Some(ty), IF l = <<>> THEN None ELSE Some(r), IF l = <<>> THEN <<>> ELSE <<Prop("a", s)>>, l, l, l) : ty \in ScalarTypes, l \in {<<>>, <<r, s>>}}

ArraySchemas(r, s) == {Sch(None, None, Some("Array"), items, <<>>, l, l, l) : items \in {None, Some(r)}, l \in {<<>>, <<s>>}}

ObjectSchemas(r, s) == {Sch(None, None, Some("Object"), None, props, l, l, l) : props \in {<<>>, <<Prop("a", r)>>, <<Prop("a", r), Prop("b", s)>>}, l \in {<<>>, <<s>>}}

\* schemas with no type: every combination of empty and non-empty lists
CompositionSchemas(r, s) == {Sch(None, None, None, IF d THEN Some(r) ELSE None, IF d THEN <<Prop("a", s)>> ELSE <<>>, allOf, oneOf, anyOf) : d \in BOOLEAN, allOf \in {<<>>, <<r>>, <<r, s>>}, oneOf \in {<<>>, <<r, s>>}, anyOf \in {<<>>, <<s, r>>}}

\* the request body's own schema: any of the above, over any two references
RootSchemas == UNION {ReadOnlySchemas(r, s) \cup ExampleSchemas(r, s) \cup ScalarSchemas(r, s) \cup ArraySchemas(r, s) \cup ObjectSchemas(r, s) \cup CompositionSchemas(r, s) : r \in Refs, s \in Refs}

\* the reference schema i makes: to the next schema, the last one to the first
NextRef(i) == IF i < NumNodes THEN i + 1 ELSE 1

\* the kinds of the other schemas of the document, schema i written out
ComponentKinds(i) == <<
    Sch(Some(TRUE), Some(ExNumber), Some("Object"), Some(0), <<Prop("x", 0)>>, <<0>>, <<0>>, <<0>>),
    Sch(None, None, Some("Integer"), None, <<>>, <<>>, <<0>>, <<>>),
    Sch(Some(FALSE), None, Some("Object"), None, <<Prop("x", NextRef(i))>>, <<>>, <<>>, <<>>),
    Sch(None, None, None, None, <<>>, <<>>, <<NextRef(i), 0>>, <<>>),
    Sch(None, None, Some("Array"), Some(0), <<>>, <<>>, <<>>, <<>>),
    Sch(None, None, None, None, <<>>, <<>>, <<>>, <<>>)>>

\* schema i of a document whose kinds start at `first` and advance by `step`
Component(i, first, step) == ComponentKinds(i)[((first + (i - 2) * step) % Len(ComponentKinds(i))) + 1]

\* documents of any root schema and of components whose kinds advance by one
\* of `steps`
DocumentsBy(steps) == {[i \in NodeIds |-> IF i = 1 THEN root ELSE Component(i, first, step)] : root \in RootSchemas, first \in 0 .. Len(ComponentKinds(2)) - 1, step \in steps}

\* with every step, the components are of every two adjacent kinds
Documents == DocumentsBy(0 .. Len(ComponentKinds(2)) - 1)

JsonName == <<"a", "p", "p", "/", "j", "s", "o", "n">>
MediaNames == {JsonName, <<"a", "p", "p", "/", "x", "m", "l">>, <<"t", "e", "x", "t", "/", "x", "-", "J", "s", "O", "N">>}

ContentEntries == {[name |-> n, schema |-> sc] : n \in MediaNames, sc \in {None} \cup {Some(r) : r \in Refs}}

\* RequestBody::content in iteration order: a map, so no name twice
RECURSIVE Contents(_)
Contents(n) == IF n = 0 THEN {<<>>} ELSE Contents(n - 1) \cup {Append(c, e) : c \in {c \in Contents(n - 1) : Len(c) = n - 1}, e \in ContentEntries}

DistinctNames(c) == \A a, b \in 1 .. Len(c) : a # b => c[a].name # c[b].name

Formattings == {"NoFormatting", "RequestBodies"}

BooleanSchema == Sch(None, None, Some("Boolean"), None, <<>>, <<>>, <<>>, <<>>)

\* documents of a few plain schemas, for the runs over request bodies
PlainDocuments == {[i \in NodeIds |-> IF i = 1 THEN root ELSE BooleanSchema] : root \in {Sch(None, None, Some("Object"), None, <<Prop("a", 2)>>, <<>>, <<>>, <<>>), Sch(None, None, Some("Array"), Some(0), <<>>, <<>>, <<>>, <<>>), Sch(Some(TRUE), None, Some("Integer"), None, <<>>, <<>>, <<>>, <<>>), Sch(None, None, None, None, <<>>, <<>>, <<2>>, <<>>)}}

\* allOf over {a: string} and {b: integer}: schema 2 is the first member and
\* the schema of its own property a, schema 3 the second and that of b
AllOfDocument == [i \in NodeIds |-> CASE i = 1 -> Sch(None, None, None, None, <<>>, <<2, 3>>, <<>>, <<>>) [] i = 2 -> Sch(None, None, Some("String"), None, <<Prop("a", 2)>>, <<>>, <<>>, <<>>) [] i = 3 -> Sch(None, None, Some("Integer"), None, <<Prop("b", 3)>>, <<>>, <<>>, <<>>) [] OTHER -> BooleanSchema]

InitWalk ==
  /\ spec \in Documents \cup {AllOfDocument}
  /\ content = <<[name |-> JsonName, schema |-> Some(1)]>>
  /\ formatting = "NoFormatting"

\* the request bodies, over the plain documents, under the given formattings
InitBodyUnder(formattings) ==
  /\ spec \in PlainDocuments
  /\ content \in {c \in Contents(MaxContent) : DistinctNames(c)}
  /\ formatting \in formattings

InitBody == InitBodyUnder(Formattings)

Init ==
  /\ InitWalk \/ InitBody
  /\ pc = "body"
  /\ idx = 1
  /\ stack = <<>>
  /\ ret = None
  /\ calls = <<>>
  /\ resolved = <<>>
  /\ result = Pending

Next ==
  \/ BodyNoSchema
  \/ BodyRefError
  \/ BodySkip
  \/ BodyJson
  \/ BodyReturn
  \/ BodyEnd
  \/ ReadOnly
  \/ Example
  \/ ScalarType
  \/ ArrayNoItems
  \/ ArrayItems
  \/ ArrayItemsReturn
  \/ ObjectProperty
  \/ ObjectPropertyReturn
  \/ ObjectDone
  \/ AllOfMember
  \/ AllOfProperty
  \/ AllOfPropertyReturn
  \/ AllOfMemberDone
  \/ AllOfDone
  \/ OneOf
  \/ AnyOf
  \/ FirstOfReturn
  \/ NullFallback

Spec == Init /\ [][Next]_vars

\* the runs whose termination is checked: the documents whose component
\* kinds follow each other, and the request bodies
InitFair ==
  /\ \/ /\ spec \in DocumentsBy({1}) \cup {AllOfDocument}
        /\ content = <<[name |-> JsonName, schema |-> Some(1)]>>
        /\ formatting = "NoFormatting"
     \/ InitBodyUnder({"NoFormatting"})
  /\ pc = "body"
  /\ idx = 1
  /\ stack = <<>>
  /\ ret = None
  /\ calls = <<>>
  /\ resolved = <<>>
  /\ result = Pending

\* the code is sequential: a step that can be taken is taken
FairSpec == InitFair /\ [][Next]_vars /\ WF_vars(Next)

(***************************************************************************)
(* Reading the logs                                                        *)
(***************************************************************************)
CallIds == DOMAIN calls
Completed(c) == calls[c].res.st # "Pending"
SchemaOf(c) == spec[calls[c].node]

\* the calls made by call c, and the references it resolved, in order
KidsOf(c) == SelectSeq(calls, LAMBDA k : k.parent = c)
ResolvedBy(c) == SelectSeq(resolved, LAMBDA r : r.by = c)
RefsOf(rs) == [i \in 1 .. Len(rs) |-> rs[i].ref]

\* the schema's fields, read directly
FlagReadOnly(s) == s.read_only = <<TRUE>>
Plain(s) == ~FlagReadOnly(s) /\ s.example = <<>>
Untyped(s) == Plain(s) /\ s.schema_type = <<>>
\* the list a schema with no type and no allOf selects its first member from
Alternatives(s) == IF s.one_of # <<>> THEN s.one_of ELSE s.any_of
SelectsFirst(s) == Untyped(s) /\ s.all_of = <<>> /\ Alternatives(s) # <<>>

\* the (name, value) pairs of the calls in kids that gave a value, as the
\* elements of an object built at `depth`
RECURSIVE ElementsOf(_, _, _)
ElementsOf(kids, depth, fmt) ==
  IF kids = <<>> THEN <<>>
  ELSE (IF kids[1].res.val # <<>> THEN <<[name |-> [template |-> kids[1].key], value |-> kids[1].res.val[1], depth |-> depth, fmt |-> fmt]>> ELSE <<>>)
         \o ElementsOf(Tail(kids), depth, fmt)

\* the properties of the schemas the references in list name, concatenated
RECURSIVE Flattened(_)
Flattened(list) == IF list = <<>> THEN <<>> ELSE spec[list[1]].properties \o Flattened(Tail(list))

\* kids are the conversions of props, one each, in order
ConvertsEach(kids, props) == Len(kids) = Len(props) /\ \A k \in 1 .. Len(kids) : kids[k].key = props[k].name /\ kids[k].node = props[k].ref

(***************************************************************************)
(* C1: a readOnly schema converts to Ok(None) at any depth, whatever its   *)
(* other fields, and no reference under it is resolved (no call is made    *)
(* from its conversion either).                                            *)
(***************************************************************************)
C1_ReadOnlyIsNone ==
  \A c \in CallIds : FlagReadOnly(SchemaOf(c)) =>
    /\ calls[c].res \in {Pending, Ok(None)}
    /\ ResolvedBy(c) = <<>>
    /\ KidsOf(c) = <<>>
    /\ pc = "done" => Completed(c)

\* a readOnly schema with an example, a type, items, properties and all
\* three lists was converted below the root
C1_Witness ==
  \E c \in CallIds :
    /\ Completed(c)
    /\ calls[c].depth > 1
    /\ FlagReadOnly(SchemaOf(c))
    /\ SchemaOf(c).example # <<>>
    /\ SchemaOf(c).schema_type # <<>>
    /\ SchemaOf(c).items # <<>>
    /\ SchemaOf(c).properties # <<>>
    /\ SchemaOf(c).all_of # <<>>
    /\ SchemaOf(c).one_of # <<>>
    /\ SchemaOf(c).any_of # <<>>

(***************************************************************************)
(* C2: a schema that is not readOnly is converted by the first rule that   *)
(* applies, in the order example, type, allOf, oneOf, anyOf, null.         *)
(***************************************************************************)
\* the two examples of the inputs, written as the output values they mirror
MirrorOf(ex, depth, fmt) ==
  IF ex = [k |-> "Number", n |-> 12]
    THEN [t |-> "Number", n |-> "12"]
    ELSE [t |-> "Object", space0 |-> "", elements |-> <<
           [name |-> [template |-> "id"],
            value |-> [t |-> "List", space0 |-> [list_space |-> fmt], elements |-> <<
                        [value |-> [t |-> "Boolean", b |-> FALSE], fmt |-> fmt],
                        [value |-> [t |-> "Null"], fmt |-> fmt],
                        [value |-> [t |-> "String", s |-> [template |-> "x"]], fmt |-> fmt]>>],
            depth |-> depth, fmt |-> fmt]>>]

ViaOnly(c, vias) == \A k \in 1 .. Len(KidsOf(c)) : KidsOf(c)[k].via \in vias
IsValue(r, t) == r.st = "Ok" /\ r.val # <<>> /\ r.val[1].t = t
FirstMemberResult(c, list, via) ==
  /\ Len(KidsOf(c)) <= 1
  /\ ViaOnly(c, {via})
  /\ \A k \in 1 .. Len(KidsOf(c)) : KidsOf(c)[k].node = list[1] /\ calls[c].res = KidsOf(c)[k].res
  /\ KidsOf(c) = <<>> => calls[c].res = Err

C2_RuleOf(c) ==
  LET s == SchemaOf(c)
      r == calls[c].res
  IN  CASE s.example # <<>> -> r = Ok(<<MirrorOf(s.example[1], calls[c].depth, formatting)>>) /\ KidsOf(c) = <<>> /\ ResolvedBy(c) = <<>>
        [] s.example = <<>> /\ s.schema_type = <<"Boolean">> -> r = Ok(<<[t |-> "Boolean", b |-> TRUE]>>) /\ KidsOf(c) = <<>>
        [] s.example = <<>> /\ s.schema_type = <<"Integer">> -> r = Ok(<<[t |-> "Number", n |-> "3"]>>) /\ KidsOf(c) = <<>>
        [] s.example = <<>> /\ s.schema_type = <<"Number">> -> r = Ok(<<[t |-> "Number", n |-> "3.3"]>>) /\ KidsOf(c) = <<>>
        [] s.example = <<>> /\ s.schema_type = <<"String">> -> r = Ok(<<[t |-> "String", s |-> [template |-> "string"]]>>) /\ KidsOf(c) = <<>>
        [] s.example = <<>> /\ s.schema_type = <<"Array">> -> (r = Err \/ IsValue(r, "List")) /\ ViaOnly(c, {"items"})
        [] s.example = <<>> /\ s.schema_type = <<"Object">> -> (r = Err \/ IsValue(r, "Object")) /\ ViaOnly(c, {"property"})
        [] Untyped(s) /\ s.all_of # <<>> -> (r = Err \/ IsValue(r, "Object")) /\ ViaOnly(c, {"allOf"})
        [] Untyped(s) /\ s.all_of = <<>> /\ s.one_of # <<>> -> FirstMemberResult(c, s.one_of, "oneOf")
        [] Untyped(s) /\ s.all_of = <<>> /\ s.one_of = <<>> /\ s.any_of # <<>> -> FirstMemberResult(c, s.any_of, "anyOf")
        [] OTHER -> r = Ok(<<[t |-> "Null"]>>) /\ KidsOf(c) = <<>>

C2_PriorityOrder == \A c \in CallIds : (Completed(c) /\ ~FlagReadOnly(SchemaOf(c))) => C2_RuleOf(c)

\* an object schema that also has allOf, oneOf and anyOf gave an object of its
\* properties, and its property, an integer schema with a oneOf, gave 3
C2_Witness ==
  \E c, d \in CallIds :
    /\ Completed(c)
    /\ Plain(SchemaOf(c)) /\ SchemaOf(c).schema_type = <<"Object">> /\ SchemaOf(c).all_of # <<>> /\ SchemaOf(c).one_of # <<>>
    /\ IsValue(calls[c].res, "Object") /\ Len(calls[c].res.val[1].elements) = 1
    /\ calls[d].parent = c
    /\ Plain(SchemaOf(d)) /\ SchemaOf(d).schema_type = <<"Integer">> /\ SchemaOf(d).one_of # <<>>
    /\ calls[d].res = Ok(<<[t |-> "Number", n |-> "3"]>>)

(***************************************************************************)
(* C5: with no example, no type and an empty allOf, the result is that of  *)
(* the first member of oneOf (of anyOf when oneOf is empty), converted at  *)
(* the same depth, None included; no later member is resolved or           *)
(* converted.                                                              *)
(***************************************************************************)
C5_FirstMemberOnly ==
  \A c \in CallIds : SelectsFirst(SchemaOf(c)) =>
    LET first == Alternatives(SchemaOf(c))[1]
        kids == KidsOf(c)
    IN  /\ RefsOf(ResolvedBy(c)) \in {<<>>, <<first>>}
        /\ Len(kids) <= 1
        /\ \A k \in 1 .. Len(kids) : kids[k].node = first /\ kids[k].depth = calls[c].depth
        /\ Completed(c) =>
             /\ RefsOf(ResolvedBy(c)) = <<first>>
             /\ IF first \in NodeIds
                  THEN Len(kids) = 1 /\ calls[c].res = kids[1].res
                  ELSE kids = <<>> /\ calls[c].res = Err

\* a oneOf whose second member cannot be resolved gave the None of its
\* first member, a readOnly schema
C5_Witness ==
  \E c \in CallIds :
    /\ Completed(c)
    /\ SelectsFirst(SchemaOf(c))
    /\ Len(SchemaOf(c).one_of) = 2
    /\ SchemaOf(c).one_of[2] = 0
    /\ KidsOf(c) # <<>>
    /\ FlagReadOnly(spec[SchemaOf(c).one_of[1]])
    /\ calls[c].res = Ok(<<>>)

(***************************************************************************)
(* C6: with no example, no type and a non-empty allOf, the result is never *)
(* None; when every reference resolves it is an Object whose elements are  *)
(* the (name, value) pairs of the members' properties, in list order and   *)
(* then property order, the properties with no value left out.             *)
(***************************************************************************)
FailedIn(c) == (\E i \in 1 .. Len(ResolvedBy(c)) : ~ResolvedBy(c)[i].ok) \/ (\E k \in 1 .. Len(KidsOf(c)) : KidsOf(c)[k].res = Err)

C6_AllOfMerges ==
  \A c \in CallIds : (Untyped(SchemaOf(c)) /\ SchemaOf(c).all_of # <<>>) =>
    /\ calls[c].res # Ok(<<>>)
    /\ (Completed(c) /\ ~FailedIn(c)) =>
         /\ \A i \in 1 .. Len(SchemaOf(c).all_of) : SchemaOf(c).all_of[i] \in NodeIds
         /\ ConvertsEach(KidsOf(c), Flattened(SchemaOf(c).all_of))
         /\ calls[c].res = Ok(<<[t |-> "Object", space0 |-> "", elements |-> ElementsOf(KidsOf(c), calls[c].depth, formatting)]>>)

\* allOf over {a: string} and {b: integer} gave a = "string", then b = 3
C6_Witness ==
  /\ pc = "done"
  /\ spec[1].all_of = <<2, 3>>
  /\ spec[2].properties = <<[name |-> "a", ref |-> 2]>>
  /\ spec[3].properties = <<[name |-> "b", ref |-> 3]>>
  /\ calls[1].res = Ok(<<[t |-> "Object", space0 |-> "", elements |-> <<
       [name |-> [template |-> "a"], value |-> [t |-> "String", s |-> [template |-> "string"]], depth |-> 1, fmt |-> formatting],
       [name |-> [template |-> "b"], value |-> [t |-> "Number", n |-> "3"], depth |-> 1, fmt |-> formatting]>>]>>)

(***************************************************************************)
(* C7: an object schema with no example gives an Object whose elements are *)
(* the declared properties in declaration order, a property being left out *)
(* exactly when its schema converts to None (and never written as null).   *)
(***************************************************************************)
NamesOf(elements) == {elements[i].name.template : i \in 1 .. Len(elements)}

C7_ObjectProperties ==
  \A c \in CallIds : (Plain(SchemaOf(c)) /\ SchemaOf(c).schema_type = <<"Object">> /\ Completed(c) /\ ~FailedIn(c)) =>
    LET props == SchemaOf(c).properties
        kids == KidsOf(c)
    IN  /\ ConvertsEach(kids, props)
        /\ IsValue(calls[c].res, "Object")
        /\ calls[c].res.val[1].elements = ElementsOf(kids, calls[c].depth, formatting)
        /\ Len(calls[c].res.val[1].elements) <= Len(props)
        /\ \A k \in 1 .. Len(props) : (kids[k].res = Ok(<<>>)) <=> (props[k].name \notin NamesOf(calls[c].res.val[1].elements))

\* of the properties a and b, a (readOnly) was left out and b was kept
C7_Witness ==
  \E c \in CallIds :
    /\ Completed(c)
    /\ Plain(SchemaOf(c)) /\ SchemaOf(c).schema_type = <<"Object">>
    /\ Len(SchemaOf(c).properties) = 2
    /\ Len(KidsOf(c)) = 2
    /\ KidsOf(c)[1].res = Ok(<<>>)
    /\ IsValue(calls[c].res, "Object")
    /\ NamesOf(calls[c].res.val[1].elements) = {"b"}

(***************************************************************************)
(* C8: the depth a call passes on.  As claimed: the caller's depth plus    *)
(* one for an object property and for an allOf, oneOf or anyOf member, the *)
(* caller's depth otherwise.                                               *)
(***************************************************************************)
ParentDepth(c) == calls[calls[c].parent].depth

C8_DepthPlusOneForMembers ==
  \A c \in CallIds :
    IF calls[c].parent = 0 THEN calls[c].depth = 1
    ELSE IF calls[c].via \in {"property", "allOf", "oneOf", "anyOf"} THEN calls[c].depth = ParentDepth(c) + 1
    ELSE calls[c].depth = ParentDepth(c)

(***************************************************************************)
(* C8, amended: the caller's depth plus one for an object property and for *)
(* a property of an allOf member; the caller's depth for an array's items  *)
(* and for the first member of oneOf or anyOf; 1 for the root.             *)
(***************************************************************************)
C8_DepthRule ==
  \A c \in CallIds :
    IF calls[c].parent = 0 THEN calls[c].depth = 1
    ELSE IF calls[c].via \in {"property", "allOf"} THEN calls[c].depth = ParentDepth(c) + 1
    ELSE calls[c].via \in {"items", "oneOf", "anyOf"} /\ calls[c].depth = ParentDepth(c)

\* below an object property at depth 2, the first member of a oneOf was
\* converted at depth 2 as well
C8_Witness ==
  \E c, d \in CallIds :
    /\ calls[c].via = "property" /\ calls[c].depth = 2
    /\ calls[d].parent = c /\ calls[d].via = "oneOf" /\ calls[d].depth = 2
    /\ Completed(d)

(***************************************************************************)
(* The references of the schema graph                                      *)
(***************************************************************************)
RefsIn(s) == {s.items[i] : i \in 1 .. Len(s.items)} \cup {s.properties[i].ref : i \in 1 .. Len(s.properties)} \cup {s.all_of[i] : i \in 1 .. Len(s.all_of)} \cup {s.one_of[i] : i \in 1 .. Len(s.one_of)} \cup {s.any_of[i] : i \in 1 .. Len(s.any_of)}

Successors(n) == RefsIn(spec[n]) \cap NodeIds

RECURSIVE ReachableFrom(_)
ReachableFrom(S) == LET T == S \cup UNION {Successors(n) : n \in S} IN IF T = S THEN S ELSE ReachableFrom(T)

\* the schemas of the graph under schema n, n included
Under(n) == ReachableFrom({n})
\* a schema under n names a reference that resolves to nothing
DanglingUnder(n) == \E m \in Under(n) : 0 \in RefsIn(spec[m])
\* a schema under n is reachable from itself
CyclicUnder(n) == \E m \in Under(n) : m \in ReachableFrom(Successors(m))

WalkStarted == calls # <<>>
RootNode == calls[1].node

(***************************************************************************)
(* C3, as claimed: when any reference anywhere in the graph under the root *)
(* cannot be resolved, the call returns the resolution error.              *)
(***************************************************************************)
C3_AnyDanglingFails == (pc = "done" /\ WalkStarted /\ DanglingUnder(RootNode)) => result = Err

(***************************************************************************)
(* C3, amended: when a reference the conversion tries to resolve cannot be *)
(* resolved, nothing more is resolved or called, the call that tried and   *)
(* every call around it return the error, and from_spec_body returns it;   *)
(* an error is returned for no other reason.  References the conversion    *)
(* does not reach are not resolved and fail nothing.                       *)
(***************************************************************************)
C3_FailFast ==
  /\ \A i \in 1 .. Len(resolved) - 1 : resolved[i].ok
  /\ \A c \in CallIds : Completed(c) => (calls[c].res = Err <=> FailedIn(c))
  /\ pc = "done" => (result = Err <=> \E i \in 1 .. Len(resolved) : ~resolved[i].ok)

\* an object's first property was converted to a value, its second could
\* not be resolved: the whole call returned the error
C3_Witness ==
  /\ pc = "done"
  /\ result = Err
  /\ Len(calls) >= 2
  /\ calls[1].res = Err
  /\ calls[2].parent = 1 /\ calls[2].res.st = "Ok" /\ calls[2].res.val # <<>>

(***************************************************************************)
(* C4: the outcome of from_spec_body depends only on the first entry whose *)
(* lower-cased name contains "json": with none the result is Ok(None);     *)
(* otherwise that entry's schema is resolved and converted at depth 1 and  *)
(* the value is wrapped in a Body (None stays None); no other entry        *)
(* changes the result or causes an error.                                  *)
(***************************************************************************)
JsonEntries == {i \in 1 .. Len(content) : IsJsonMediaType(content[i].name)}
FirstJson == CHOOSE i \in JsonEntries : \A j \in JsonEntries : i <= j
Wrapped(r) == IF r = Err THEN Err ELSE IF r.val = <<>> THEN Ok(<<>>) ELSE Ok(<<[line_terminators |-> <<>>, space0 |-> "", value |-> [bytes |-> "Json", json |-> r.val[1]], line_terminator0 |-> "\n"]>>)

C4_FirstJsonEntryDecides ==
  pc = "done" =>
    IF JsonEntries = {} THEN result = Ok(<<>>)
    ELSE content[FirstJson].schema # <<>> =>
           IF content[FirstJson].schema[1] \notin NodeIds THEN result = Err
           ELSE /\ WalkStarted
                /\ RootNode = content[FirstJson].schema[1]
                /\ calls[1].depth = 1
                /\ result = Wrapped(calls[1].res)

(***************************************************************************)
(* C10, as claimed in its last part: from_spec_body returns a Body for the *)
(* JSON entry whenever the resolved root schema is not readOnly and has an *)
(* example, a type or a non-empty allOf.                                   *)
(***************************************************************************)
NeverNone(s) == ~FlagReadOnly(s) /\ (s.example # <<>> \/ s.schema_type # <<>> \/ s.all_of # <<>>)

C10_AlwaysABody == (pc = "done" /\ WalkStarted /\ idx = 1 /\ NeverNone(spec[RootNode])) => (result.st = "Ok" /\ result.val # <<>>)

(***************************************************************************)
(* C10, amended: the conversion gives Ok(None) exactly when the schema is  *)
(* readOnly, or has no example, no type and an empty allOf and the first   *)
(* member of its oneOf (of its anyOf when oneOf is empty) converts to      *)
(* None.  So a schema with an example, a type or a non-empty allOf never   *)
(* gives None, and for such a root from_spec_body returns a Body around    *)
(* the value, or the resolution error; it never returns Ok(None).          *)
(***************************************************************************)
C10_NoneExactlyWhen ==
  /\ \A c \in CallIds : Completed(c) =>
       (calls[c].res = Ok(<<>>) <=>
          \/ FlagReadOnly(SchemaOf(c))
          \/ SelectsFirst(SchemaOf(c)) /\ KidsOf(c) # <<>> /\ KidsOf(c)[1].node = Alternatives(SchemaOf(c))[1] /\ KidsOf(c)[1].res = Ok(<<>>))
  /\ (pc = "done" /\ WalkStarted /\ NeverNone(spec[RootNode])) =>
       /\ result # Ok(<<>>)
       /\ result = Wrapped(calls[1].res)
       /\ result = Err <=> \E i \in 1 .. Len(resolved) : ~resolved[i].ok

\* an array whose items are readOnly gave an empty list, and from_spec_body
\* a Body around it
C10_Witness ==
  /\ pc = "done"
  /\ WalkStarted
  /\ Plain(spec[RootNode]) /\ spec[RootNode].schema_type = <<"Array">>
  /\ Len(calls) = 2 /\ calls[2].res = Ok(<<>>)
  /\ IsValue(calls[1].res, "List") /\ calls[1].res.val[1].elements = <<>>
  /\ result.st = "Ok" /\ result.val # <<>> /\ result.val[1].value.json = calls[1].res.val[1]

(***************************************************************************)
(* C9, as claimed in its second part: on a graph where a schema under the  *)
(* root is reachable from itself through references, the call never        *)
(* returns.                                                                *)
(***************************************************************************)
C9_CycleNeverReturns == (WalkStarted /\ CyclicUnder(RootNode)) => calls[1].res = Pending

(***************************************************************************)
(* C9, amended: cycles are not detected.  Every call either returns or     *)
(* recurses until the stack is exhausted; it returns whenever the graph    *)
(* under the root has no reference cycle; it fails to return exactly when  *)
(* the walk enters a schema whose conversion is still running, and from    *)
(* then on it never returns.  A cycle the walk does not follow (below a    *)
(* readOnly schema or an example, through a field the priority order       *)
(* ignores, through a later member of oneOf or anyOf) does not keep the    *)
(* call from returning.                                                    *)
(***************************************************************************)
Reentered == \E f, g \in 1 .. Len(stack) : f < g /\ stack[f].node = stack[g].node

\* the calls around call c
RECURSIVE CallersOf(_)
CallersOf(c) == IF calls[c].parent = 0 THEN {} ELSE {calls[c].parent} \cup CallersOf(calls[c].parent)

\* some call was made on a schema while a call on that schema was running
EverReentered == \E c \in CallIds : \E a \in CallersOf(c) : calls[a].node = calls[c].node

C9_ReturnsUnlessReentered ==
  /\ <>(pc \in {"done", "overflow"})
  /\ [](pc = "overflow" => (Reentered /\ CyclicUnder(RootNode)))
  /\ []((pc = "done" /\ WalkStarted) => ~EverReentered)

\* the walk entered a schema again below itself and exhausted the stack
C9_Witness ==
  /\ pc = "overflow"
  /\ Reentered
  /\ calls[1].res = Pending

====
